---------------------------- MODULE Spec2Model ----------------------------
(* Py-TCG-Print: the layout engine (calculate_layout), the page compositor  *)
(* (create_page), the batching loop and the three entry points that drive   *)
(* them: pytcgprint (core.py), main (cli.py) and GenerateThread.run with    *)
(* the MainWindow handlers (gui.py).                                        *)
(*                                                                          *)
(* Lengths are Python floats in the source.  Here a length in inches is an  *)
(* exact fraction [num, den]; page, card and margin lengths are counts of   *)
(* quarter inches and the scale is a count of halves, so px truncates a     *)
(* real quotient as int() does.  Binary floating point rounding of the      *)
(* product is not modelled.                                                 *)
EXTENDS Integers, Sequences, FiniteSets

VARIABLES
    entry,        \* who runs: "call" (calculate_layout alone), "core", "cli", "gui"
    settings,     \* the Settings value / parsed args
    dir_exists,   \* input_path.exists()
    dir_files,    \* the sorted regular files of the directory, by kind
    pc,           \* position of the run
    image_files,  \* result of get_image_files: indices into dir_files
    cols,         \* calculate_layout local
    rows,         \* calculate_layout local
    test_rows,    \* calculate_layout local of the auto-row search
    layout,       \* the dict calculate_layout returned, NoLayout before
    layout_err,   \* the exception calculate_layout ended with, "none" otherwise
    layout_calls, \* number of times calculate_layout was entered in this run
    i,            \* index of the batching loop
    batches,      \* the batch handed to create_page in each iteration so far
    pages,        \* the list of pages rendered so far
    output,       \* the output file: NoFile or the pages saved in it
    reported,     \* messages printed / shown during the run, in order
    signal,       \* gui: the signal emitted by GenerateThread, pending delivery
    btn_enabled,  \* gui: generate_btn.isEnabled()
    threads,      \* gui: GenerateThreads started whose run() has not ended
    emitted       \* gui: finished / error signals emitted by the current thread

vars == <<entry, settings, dir_exists, dir_files, pc, image_files, cols, rows,
          test_rows, layout, layout_err, layout_calls, i, batches, pages,
          output, reported, signal, btn_enabled, threads, emitted>>

----------------------------------------------------------------------------
(* Bounds of the model. *)

\* page width / height range over 1..MaxPage quarter inches
MaxPage == 5
\* card width / height range over 1..MaxCard quarter inches
MaxCard == 2
\* margin ranges over 0..MaxMargin quarter inches
MaxMargin == 1
\* scale ranges over 1..MaxScale halves
MaxScale == 2
\* dpi ranges over the multiples of 4 up to 4 * MaxDpiStep
MaxDpiStep == 2
\* requested cols / rows range over 0..MaxCols / 0..MaxRows (0 = auto)
MaxCols == 2
MaxRows == 2
\* the directory holds at most MaxFiles regular files
MaxFiles == 3
\* the auto-row search is followed for at most MaxTestRows trial counts
MaxTestRows == 16

----------------------------------------------------------------------------
(* Lengths and the unit converter. *)

Quarters(q) == [num |-> q, den |-> 4]
Halves(h) == [num |-> h, den |-> 2]
Times(a, b) == [num |-> a.num * b.num, den |-> a.den * b.den]

\* int(): truncation toward zero
Trunc(n, d) == IF n >= 0 THEN n \div d ELSE -((-n) \div d)

\* px(inches, dpi) = int(inches * dpi)
px(inches, dpi) == Trunc(inches.num * dpi, inches.den)

\* the locals calculate_layout derives from the settings before any branch
PageW(s) == px(Quarters(s.page_width), s.dpi)
PageH(s) == px(Quarters(s.page_height), s.dpi)
CardW(s) == px(Times(Quarters(s.card_width), Halves(s.scale)), s.dpi)
CardH(s) == px(Times(Quarters(s.card_height), Halves(s.scale)), s.dpi)
MarginX(s) == px(Quarters(s.margin), s.dpi)
AvailW(s) == PageW(s) - (2 * MarginX(s))

BufferYOneEdge(s) == px(Quarters(1), s.dpi)

\* buffer_y = px(0.25, dpi) * 2
BufferY(s) == px(Quarters(1), s.dpi) * 2

AutoColsCeil(avail_w, card_w) == (avail_w + card_w - 1) \div card_w

\* floor(avail_w / card_w)
AutoCols(avail_w, card_w) == avail_w \div card_w

GapIgnoringMargin(page_w, margin_x, card_w, c) ==
    IF c > 1 THEN (page_w - (c * card_w)) \div (c - 1) ELSE 0

\* gap = available_gap_space // (cols - 1) if cols > 1 else 0
Gap(page_w, margin_x, card_w, c) ==
    IF c > 1 THEN (page_w - (2 * margin_x) - (c * card_w)) \div (c - 1) ELSE 0

\* (n * card_h) + ((n - 1) * gap)
GridH(n, card_h, gap) == (n * card_h) + ((n - 1) * gap)

TooTallNever(total_grid_h, page_h) == FALSE

TooTallStrict(total_grid_h, page_h) == total_grid_h >= page_h

\* if total_grid_h > page_h: raise ValueError
TooTall(total_grid_h, page_h) == total_grid_h > page_h

MarginYCeil(page_h, total_grid_h) == (page_h - total_grid_h + 1) \div 2

\* margin_y = (page_h - total_grid_h) // 2
MarginY(page_h, total_grid_h) == (page_h - total_grid_h) \div 2

----------------------------------------------------------------------------
(* Inputs. *)

SettingsSet ==
    [page_width : 1..MaxPage, page_height : 1..MaxPage,
     card_width : 1..MaxCard, card_height : 1..MaxCard,
     margin : 0..MaxMargin, scale : 1..MaxScale,
     rows : 0..MaxRows, cols : 0..MaxCols,
     dpi : {4 * k : k \in 1..MaxDpiStep}]

\* the settings the full runs are started with: 4 dpi, scale 1.0, no margin,
\* a page 3 quarters high and 1 or 3 quarters wide
RunSettingsSet ==
    {s \in SettingsSet :
        /\ s.dpi = 4 /\ s.scale = 2 /\ s.margin = 0
        /\ s.page_height = 3
        /\ s.page_width \in {1, 3}}

\* a regular file of the directory: "ok" verifies and renders, "unreadable"
\* verifies but fails when create_page processes it, "invalid" fails verify
FileKinds == {"ok", "unreadable", "invalid"}
DirListings == UNION {[1..n -> FileKinds] : n \in 0..MaxFiles}

NoLayout ==
    [page_size |-> <<0, 0>>, card_size |-> <<0, 0>>, margin_x |-> 0,
     margin_y |-> 0, gap |-> 0, cols |-> 0, rows |-> 0, cards_per_page |-> 0]
NoFile == <<"no file">>

ValueErrors == {"TooNarrow", "TooTall"}

Init ==
    /\ entry \in {"call", "core", "cli", "gui"}
    /\ settings \in (IF entry = "call" THEN SettingsSet ELSE RunSettingsSet)
    /\ dir_exists \in (IF entry = "call" THEN {TRUE} ELSE BOOLEAN)
    /\ dir_files \in (IF entry = "call" \/ ~dir_exists THEN {<<>>} ELSE DirListings)
    /\ pc = (CASE entry = "call" -> "layout_cols"
               [] entry = "gui" -> "idle"
               [] OTHER -> "scan")
    /\ image_files = <<>>
    /\ cols = 0 /\ rows = 0 /\ test_rows = 0
    /\ layout = NoLayout
    /\ layout_err = "none"
    /\ layout_calls = 0
    /\ i = 0
    /\ batches = <<>>
    /\ pages = <<>>
    /\ output = NoFile
    /\ reported = <<>>
    /\ signal = "none"
    /\ btn_enabled = TRUE
    /\ threads = 0
    /\ emitted = 0

----------------------------------------------------------------------------
(* calculate_layout. *)

\* How an exception of calculate_layout ends the run, by entry point:
\*   call: it propagates to the caller;
\*   core: pytcgprint catches ValueError, prints it and returns [];
\*         anything else propagates out of pytcgprint;
\*   cli:  cli.calculate_layout prints the error and calls sys.exit(1) where
\*         core raises ValueError; anything else ends main with a traceback;
\*   gui:  GenerateThread.run catches Exception and emits error(str(e)).
LayoutFails(kind) ==
    /\ layout_err' = kind
    /\ CASE entry = "call" ->
              /\ pc' = "raised"
              /\ UNCHANGED <<reported, signal, threads, emitted>>
         [] entry = "core" ->
              IF kind \in ValueErrors
              THEN /\ pc' = "returned"
                   /\ reported' = Append(reported, kind)
                   /\ UNCHANGED <<signal, threads, emitted>>
              ELSE /\ pc' = "crashed"
                   /\ UNCHANGED <<reported, signal, threads, emitted>>
         [] entry = "cli" ->
              IF kind \in ValueErrors
              THEN /\ pc' = "exit1"
                   /\ reported' = Append(reported, kind)
                   /\ UNCHANGED <<signal, threads, emitted>>
              ELSE /\ pc' = "crashed"
                   /\ UNCHANGED <<reported, signal, threads, emitted>>
         [] entry = "gui" ->
              /\ pc' = "thread_done"
              /\ signal' = "error"
              /\ emitted' = emitted + 1
              /\ threads' = threads - 1
              /\ UNCHANGED reported

\* lines 56-76: the pixel sizes and the column count
LayoutCols ==
    /\ pc = "layout_cols"
    /\ layout_calls' = layout_calls + 1
    /\ IF settings.cols <= 0 /\ CardW(settings) = 0
       THEN /\ LayoutFails("ZeroDivisionError")
            /\ UNCHANGED <<cols, rows, test_rows>>
       ELSE LET c == IF settings.cols <= 0
                     THEN AutoCols(AvailW(settings), CardW(settings))
                     ELSE settings.cols
            IN  IF c < 1
                THEN /\ LayoutFails("TooNarrow")
                     /\ UNCHANGED <<cols, rows, test_rows>>
                ELSE /\ cols' = c
                     /\ rows' = settings.rows
                     /\ test_rows' = 1
                     /\ pc' = IF settings.rows <= 0 THEN "layout_rows"
                                                    ELSE "layout_final"
                     /\ UNCHANGED <<layout_err, reported, signal, threads, emitted>>
    /\ UNCHANGED <<entry, settings, dir_exists, dir_files, image_files, layout,
                   i, batches, pages, output, btn_enabled>>

\* lines 84-104: one iteration of the auto-row search
LayoutRowsIter ==
    /\ pc = "layout_rows"
    /\ LET gap == Gap(PageW(settings), MarginX(settings), CardW(settings), cols)
           next_rows == test_rows + 1
           needed_h == GridH(next_rows, CardH(settings), gap)
       IN  IF needed_h > PageH(settings) - BufferY(settings)
           THEN /\ rows' = test_rows
                /\ pc' = "layout_final"
                /\ UNCHANGED test_rows
           ELSE /\ test_rows < MaxTestRows
                /\ test_rows' = test_rows + 1
                /\ UNCHANGED <<rows, pc>>
    /\ UNCHANGED <<entry, settings, dir_exists, dir_files, image_files, cols,
                   layout, layout_err, layout_calls, i, batches, pages, output, reported,
                   signal, btn_enabled,
                   threads, emitted>>

\* lines 108-135: the final geometry
LayoutFinal ==
    /\ pc = "layout_final"
    /\ LET gap == Gap(PageW(settings), MarginX(settings), CardW(settings), cols)
           total_grid_h == GridH(rows, CardH(settings), gap)
       IN  IF TooTall(total_grid_h, PageH(settings))
           THEN /\ LayoutFails("TooTall")
                /\ UNCHANGED layout
           ELSE /\ layout' =
                     [page_size |-> <<PageW(settings), PageH(settings)>>,
                      card_size |-> <<CardW(settings), CardH(settings)>>,
                      margin_x |-> MarginX(settings),
                      margin_y |-> MarginY(PageH(settings), total_grid_h),
                      gap |-> gap,
                      cols |-> cols,
                      rows |-> rows,
                      cards_per_page |-> cols * rows]
                /\ IF entry = "cli" /\ cols * rows = 0
                   THEN \* cli.main lines 198-200: if cpp == 0: sys.exit(1)
                        /\ pc' = "exit1"
                        /\ reported' = Append(reported, "ZeroCapacity")
                   ELSE /\ pc' = IF entry = "call" THEN "returned_layout"
                                                   ELSE "batches"
                        /\ UNCHANGED reported
                /\ UNCHANGED <<layout_err, signal, threads, emitted>>
    /\ UNCHANGED <<entry, settings, dir_exists, dir_files, image_files, cols,
                   rows, test_rows, layout_calls, i, batches, pages, output, btn_enabled>>

----------------------------------------------------------------------------
(* get_image_files. *)

RECURSIVE VerifiedFrom(_, _)
\* lines 38-44: the files, in sorted order, whose img.verify() succeeds
VerifiedFrom(files, k) ==
    IF k > Len(files) THEN <<>>
    ELSE IF files[k] # "invalid" THEN <<k>> \o VerifiedFrom(files, k + 1)
         ELSE VerifiedFrom(files, k + 1)

\* core.get_image_files: on a missing directory or no valid image it prints
\* the error and returns []; pytcgprint and GenerateThread.run go on
GetImageFiles ==
    /\ pc = "scan"
    /\ entry \in {"core", "gui"}
    /\ IF ~dir_exists
       THEN /\ reported' = Append(reported, "InputDirMissing")
            /\ image_files' = <<>>
       ELSE LET valid_files == VerifiedFrom(dir_files, 1)
            IN  IF valid_files = <<>>
                THEN /\ reported' = Append(reported, "NoValidImages")
                     /\ image_files' = <<>>
                ELSE /\ image_files' = valid_files
                     /\ UNCHANGED reported
    /\ pc' = "layout_cols"
    /\ UNCHANGED <<entry, settings, dir_exists, dir_files, cols, rows, test_rows,
                   layout, layout_err, layout_calls, i, batches, pages, output, signal,
                   btn_enabled,
                   threads, emitted>>

\* cli.get_image_files: the same scan, but the two errors call sys.exit(1)
CliGetImageFiles ==
    /\ pc = "scan"
    /\ entry = "cli"
    /\ IF ~dir_exists
       THEN /\ reported' = Append(reported, "InputDirMissing")
            /\ pc' = "exit1"
            /\ UNCHANGED image_files
       ELSE LET valid_files == VerifiedFrom(dir_files, 1)
            IN  IF valid_files = <<>>
                THEN /\ reported' = Append(reported, "NoValidImages")
                     /\ pc' = "exit1"
                     /\ UNCHANGED image_files
                ELSE /\ image_files' = valid_files
                     /\ pc' = "layout_cols"
                     /\ UNCHANGED reported
    /\ UNCHANGED <<entry, settings, dir_exists, dir_files, cols, rows, test_rows,
                   layout, layout_err, layout_calls, i, batches, pages, output, signal,
                   btn_enabled,
                   threads, emitted>>

----------------------------------------------------------------------------
(* create_page. *)

Min(a, b) == IF a <= b THEN a ELSE b

CellColByRow(idx, c) == idx \div c

\* col = idx % cols
CellCol(idx, c) == idx % c

\* row = idx // cols
CellRow(idx, c) == idx \div c

\* x = layout['margin_x'] + (col * (cw + gap))
CellX(lay, col) == lay.margin_x + (col * (lay.card_size[1] + lay.gap))

\* y = layout['margin_y'] + (row * (ch + gap))
CellY(lay, row) == lay.margin_y + (row * (lay.card_size[2] + lay.gap))

\* opening, converting and resizing the image raises for an unreadable file
Renders(f) == dir_files[f] = "ok"

PlaceImagePacked(page, idx, f, lay) ==
    IF Renders(f)
    THEN Append(page, [img |-> f,
                       x |-> CellX(lay, CellCol(Len(page), lay.cols)),
                       y |-> CellY(lay, CellRow(Len(page), lay.cols))])
    ELSE page

\* lines 145-166: the body of the loop for the image at index idx; a page is
\* the sequence of page.paste(img, (x, y)) calls made on the white canvas
PlaceImage(page, idx, f, lay) ==
    IF Renders(f)
    THEN Append(page, [img |-> f,
                       x |-> CellX(lay, CellCol(idx, lay.cols)),
                       y |-> CellY(lay, CellRow(idx, lay.cols))])
    ELSE page

RECURSIVE PlaceFrom(_, _, _, _)
PlaceFrom(image_paths, lay, idx, page) ==
    IF idx >= Len(image_paths) THEN page
    ELSE PlaceFrom(image_paths, lay, idx + 1,
                   PlaceImage(page, idx, image_paths[idx + 1], lay))

\* create_page(image_paths, layout)
create_page(image_paths, lay) == PlaceFrom(image_paths, lay, 0, <<>>)

----------------------------------------------------------------------------
(* The batching loop and the export. *)

TotalPagesFloor(total_images, cards_per_page) == total_images \div cards_per_page

\* ceil(total_images / cards_per_page)
TotalPages(total_images, cards_per_page) ==
    -((-total_images) \div cards_per_page)

BatchOverlapping(files, k, cards_per_page) ==
    SubSeq(files, (k * cards_per_page) + 1,
           Min((k * cards_per_page) + cards_per_page + 1, Len(files)))

\* image_files[start:end] with start = i * cpp, end = start + cpp
Batch(files, k, cards_per_page) ==
    SubSeq(files, (k * cards_per_page) + 1,
           Min((k * cards_per_page) + cards_per_page, Len(files)))

\* one iteration of: for i in range(total_pages)
RenderBatch ==
    /\ pc = "batches"
    /\ i < TotalPages(Len(image_files), layout.cards_per_page)
    /\ LET batch == Batch(image_files, i, layout.cards_per_page)
       IN  /\ batches' = Append(batches, batch)
           /\ pages' = Append(pages, create_page(batch, layout))
    /\ i' = i + 1
    /\ UNCHANGED <<entry, settings, dir_exists, dir_files, pc, image_files, cols,
                   rows, test_rows, layout, layout_err, layout_calls, output,
                   reported, signal, btn_enabled,
                   threads, emitted>>

\* pytcgprint after the loop: save when there are pages, and return them
CoreFinish ==
    /\ pc = "batches"
    /\ entry = "core"
    /\ i = TotalPages(Len(image_files), layout.cards_per_page)
    /\ IF pages # <<>>
       THEN /\ output' = pages
            /\ reported' = Append(reported, "Done")
       ELSE /\ reported' = Append(reported, "NoPagesCreated")
            /\ UNCHANGED output
    /\ pc' = "returned"
    /\ UNCHANGED <<entry, settings, dir_exists, dir_files, image_files, cols,
                   rows, test_rows, layout, layout_err, layout_calls, i, batches, pages,
                   signal, btn_enabled,
                   threads, emitted>>

\* cli.main after the loop: save when there are pages
CliFinish ==
    /\ pc = "batches"
    /\ entry = "cli"
    /\ i = TotalPages(Len(image_files), layout.cards_per_page)
    /\ IF pages # <<>>
       THEN /\ output' = pages
            /\ reported' = Append(reported, "Done")
       ELSE UNCHANGED <<output, reported>>
    /\ pc' = "exit0"
    /\ UNCHANGED <<entry, settings, dir_exists, dir_files, image_files, cols,
                   rows, test_rows, layout, layout_err, layout_calls, i, batches, pages,
                   signal, btn_enabled,
                   threads, emitted>>

\* GenerateThread.run after the loop: self.finished.emit(pages)
GuiFinish ==
    /\ pc = "batches"
    /\ entry = "gui"
    /\ i = TotalPages(Len(image_files), layout.cards_per_page)
    /\ signal' = "finished"
    /\ emitted' = emitted + 1
    /\ threads' = threads - 1
    /\ pc' = "thread_done"
    /\ UNCHANGED <<entry, settings, dir_exists, dir_files, image_files, cols,
                   rows, test_rows, layout, layout_err, layout_calls, i, batches, pages,
                   output, reported, btn_enabled>>

----------------------------------------------------------------------------
(* The main window. *)

ButtonLeftEnabled == TRUE

\* self.generate_btn.setEnabled(False)
ButtonWhileRunning == FALSE

\* MainWindow.generate_pdf: the click on Generate, which Qt delivers only while
\* the button is enabled, starts a new GenerateThread
GeneratePdf ==
    /\ entry = "gui"
    /\ btn_enabled
    /\ btn_enabled' = ButtonWhileRunning
    /\ threads' = threads + 1
    /\ emitted' = 0
    /\ pc' = "scan"
    /\ image_files' = <<>>
    /\ cols' = 0 /\ rows' = 0 /\ test_rows' = 0
    /\ layout' = NoLayout
    /\ layout_err' = "none"
    /\ layout_calls' = 0
    /\ i' = 0
    /\ batches' = <<>>
    /\ pages' = <<>>
    /\ reported' = <<>>
    /\ UNCHANGED <<entry, settings, dir_exists, dir_files, output, signal>>

\* MainWindow.on_generation_finished(pages)
OnGenerationFinished ==
    /\ pc = "thread_done"
    /\ signal = "finished"
    /\ IF pages # <<>>
       THEN IF output # NoFile
            THEN reported' = Append(reported, "PdfSaved")
            ELSE reported' = Append(reported, "OutputFileNotFound")
       ELSE UNCHANGED reported
    /\ btn_enabled' = TRUE
    /\ signal' = "none"
    /\ pc' = "idle"
    /\ UNCHANGED <<entry, settings, dir_exists, dir_files, image_files, cols,
                   rows, test_rows, layout, layout_err, layout_calls, i, batches, pages,
                   output,
                   threads, emitted>>

\* MainWindow.on_generation_error(error_msg)
OnGenerationError ==
    /\ pc = "thread_done"
    /\ signal = "error"
    /\ reported' = Append(reported, layout_err)
    /\ btn_enabled' = TRUE
    /\ signal' = "none"
    /\ pc' = "idle"
    /\ UNCHANGED <<entry, settings, dir_exists, dir_files, image_files, cols,
                   rows, test_rows, layout, layout_err, layout_calls, i, batches, pages,
                   output,
                   threads, emitted>>

----------------------------------------------------------------------------

Next ==
    \/ GeneratePdf
    \/ GetImageFiles
    \/ CliGetImageFiles
    \/ LayoutCols
    \/ LayoutRowsIter
    \/ LayoutFinal
    \/ RenderBatch
    \/ CoreFinish
    \/ CliFinish
    \/ GuiFinish
    \/ OnGenerationFinished
    \/ OnGenerationError

Spec == Init /\ [][Next]_vars

----------------------------------------------------------------------------
(* Properties of the geometry calculate_layout returns. *)

\* calculate_layout has returned its dict
Returned == layout # NoLayout

page_w_of(lay) == lay.page_size[1]
page_h_of(lay) == lay.page_size[2]
cw_of(lay) == lay.card_size[1]
ch_of(lay) == lay.card_size[2]

\* rows * card_h + (rows - 1) * gap of a returned geometry
GridHeightOf(lay) == (lay.rows * ch_of(lay)) + ((lay.rows - 1) * lay.gap)

\* 2 * margin_x + cols * card_w + (cols - 1) * gap of a returned geometry
GridWidthOf(lay) ==
    (2 * lay.margin_x) + (lay.cols * cw_of(lay)) + ((lay.cols - 1) * lay.gap)

\* the top-left corner create_page gives the cell of batch index k
OriginX(lay, k) == lay.margin_x + ((k % lay.cols) * (cw_of(lay) + lay.gap))
OriginY(lay, k) == lay.margin_y + ((k \div lay.cols) * (ch_of(lay) + lay.gap))

\* C1: every returned geometry has gap >= 0, and gap = 0 when there is one
\* column; an explicit column count too large for the width gives gap 0.
C1_GapNeverNegative ==
    Returned => /\ layout.gap >= 0
                /\ (layout.cols = 1 => layout.gap = 0)

\* the card rectangles of batch indices a and b share no pixel
CellsDisjoint(lay, a, b) ==
    \/ OriginX(lay, a) + cw_of(lay) <= OriginX(lay, b)
    \/ OriginX(lay, b) + cw_of(lay) <= OriginX(lay, a)
    \/ OriginY(lay, a) + ch_of(lay) <= OriginY(lay, b)
    \/ OriginY(lay, b) + ch_of(lay) <= OriginY(lay, a)

\* C2: cards never overlap: for every returned geometry, the rectangles of
\* any two distinct batch indices below cols * rows are disjoint.
C2_CardsNeverOverlap ==
    Returned =>
        \A a, b \in 0..(layout.cards_per_page - 1) :
            a # b => CellsDisjoint(layout, a, b)

\* the card rectangle of batch index k lies inside the page canvas
CellInsidePage(lay, k) ==
    /\ OriginX(lay, k) >= 0
    /\ OriginX(lay, k) + cw_of(lay) <= page_w_of(lay)
    /\ OriginY(lay, k) >= 0
    /\ OriginY(lay, k) + ch_of(lay) <= page_h_of(lay)

\* C3 as claimed: every returned geometry, with auto or explicit cols and
\* rows, occupies at most the page width and the page height, has a vertical
\* margin >= 0, and so keeps every cell of a full page inside the canvas.
C3_GridInsidePage ==
    Returned =>
        /\ GridWidthOf(layout) <= page_w_of(layout)
        /\ GridHeightOf(layout) <= page_h_of(layout)
        /\ layout.margin_y >= 0
        /\ \A k \in 0..(layout.cards_per_page - 1) : CellInsidePage(layout, k)

\* the columns fit the width left by the margins, as auto columns always do
ColsFit(lay) == lay.cols * cw_of(lay) <= page_w_of(lay) - (2 * lay.margin_x)

\* C3 as amended: every returned geometry occupies at most the page height
\* and has a vertical margin >= 0; when its columns fit the available width
\* (cols * card_w <= page_w - 2 * margin_x, which auto columns always do) it
\* also occupies at most the page width and keeps every cell of a full page
\* inside the canvas.
C3_GridInsidePageWhenColsFit ==
    Returned =>
        /\ GridHeightOf(layout) <= page_h_of(layout)
        /\ layout.margin_y >= 0
        /\ (settings.cols <= 0 => ColsFit(layout))
        /\ ColsFit(layout) =>
              /\ GridWidthOf(layout) <= page_w_of(layout)
              /\ \A k \in 0..(layout.cards_per_page - 1) :
                    CellInsidePage(layout, k)

C3_Witness ==
    /\ Returned
    /\ settings.cols >= 2 /\ settings.rows >= 2
    /\ ColsFit(layout)
    /\ layout.gap > 0
    /\ cw_of(layout) > 0 /\ ch_of(layout) > 0
    /\ GridHeightOf(layout) = page_h_of(layout)

\* C4: with auto cols the returned column count is the floor of
\* (page_w - 2 * margin) / card_w; an explicit cols = N >= 1 is returned as
\* N whether or not N cards fit.
C4_ColumnCount ==
    Returned =>
        LET avail == page_w_of(layout) - (2 * layout.margin_x)
        IN  /\ settings.cols <= 0 =>
                  /\ layout.cols * cw_of(layout) <= avail
                  /\ avail < (layout.cols + 1) * cw_of(layout)
            /\ settings.cols >= 1 => layout.cols = settings.cols

C4_Witness ==
    /\ Returned
    /\ settings.cols = 0
    /\ layout.cols >= 2
    /\ layout.cols * cw_of(layout) < page_w_of(layout) - (2 * layout.margin_x)

\* C5 as claimed: 2 * margin_y + total_grid_height = page_h exactly.
C5_VerticalMarginExact ==
    Returned => (2 * layout.margin_y) + GridHeightOf(layout) = page_h_of(layout)

\* C5 as amended: 2 * margin_y + total_grid_height is page_h when the
\* leftover page_h - total_grid_height is even and page_h - 1 when it is odd.
C5_VerticalMarginWithinOne ==
    Returned =>
        LET leftover == page_h_of(layout) - GridHeightOf(layout)
            used == (2 * layout.margin_y) + GridHeightOf(layout)
        IN  IF leftover % 2 = 0 THEN used = page_h_of(layout)
                                ELSE used = page_h_of(layout) - 1

C5_Witness ==
    /\ Returned
    /\ (page_h_of(layout) - GridHeightOf(layout)) % 2 = 1
    /\ layout.rows >= 2
    /\ ch_of(layout) > 0

----------------------------------------------------------------------------
(* Properties of the batching loop and of create_page. *)

\* the batching loop of a run has ended
LoopDone == entry # "call" /\ Returned /\ pc # "batches"

RECURSIVE Concat(_)
Concat(seqs) == IF seqs = <<>> THEN <<>> ELSE Head(seqs) \o Concat(Tail(seqs))

\* C6: the loop produces ceil(total / capacity) batches whose concatenation
\* in page order is the input list; every batch but the last has length
\* capacity and the last one is not empty.
C6_BatchesPartitionInput ==
    LoopDone =>
        LET total == Len(image_files)
            cap == layout.cards_per_page
            n == Len(batches)
        IN  /\ cap >= 1
            /\ n * cap >= total
            /\ (n - 1) * cap < total \/ (n = 0 /\ total = 0)
            /\ Concat(batches) = image_files
            /\ \A b \in 1..n : /\ b < n => Len(batches[b]) = cap
                               /\ Len(batches[b]) >= 1
                               /\ Len(batches[b]) <= cap

C6_Witness ==
    /\ LoopDone
    /\ Len(batches) >= 2
    /\ layout.cards_per_page >= 2
    /\ Len(batches[Len(batches)]) < layout.cards_per_page

\* the 0-based index of file f in batch b
IndexIn(b, f) == (CHOOSE k \in 1..Len(b) : b[k] = f) - 1

\* C7: the image at batch index k is pasted at column k mod cols and row
\* k div cols, at x = margin_x + col * (card_w + gap) and
\* y = margin_y + row * (card_h + gap); the batch fills the grid left to
\* right, then top to bottom, and every row index is below rows.
C7_PlacementByIndex ==
    \A p \in 1..Len(pages) :
        \A q \in 1..Len(pages[p]) :
            LET paste == pages[p][q]
                k == IndexIn(batches[p], paste.img)
            IN  \E col \in 0..(layout.cols - 1), row \in 0..(layout.rows - 1) :
                    /\ k = (row * layout.cols) + col
                    /\ paste.x = layout.margin_x
                                   + (col * (cw_of(layout) + layout.gap))
                    /\ paste.y = layout.margin_y
                                   + (row * (ch_of(layout) + layout.gap))

C7_Witness ==
    \E p \in 1..Len(pages) :
        /\ layout.cols = 2 /\ layout.rows = 2
        /\ layout.gap > 0
        /\ Len(pages[p]) = 3
        /\ pages[p][2].x > pages[p][1].x
        /\ pages[p][3].y > pages[p][1].y

RECURSIVE RenderableOf(_)
\* the files of a batch that create_page can process, in batch order
RenderableOf(b) ==
    IF b = <<>> THEN <<>>
    ELSE IF dir_files[Head(b)] = "ok" THEN <<Head(b)>> \o RenderableOf(Tail(b))
         ELSE RenderableOf(Tail(b))

\* C8: a failure on the image at batch index k is contained: nothing is
\* pasted for k, every other image of the batch is pasted at the cell of its
\* own index, create_page returns a page for the batch, and the run goes on
\* through the remaining batches to its export step.
C8_FailureContained ==
    /\ Len(pages) = Len(batches)
    /\ \A p \in 1..Len(pages) :
          /\ [q \in 1..Len(pages[p]) |-> pages[p][q].img] = RenderableOf(batches[p])
          /\ \A q \in 1..Len(pages[p]) :
                LET k == IndexIn(batches[p], pages[p][q].img)
                IN  /\ pages[p][q].x = OriginX(layout, k)
                    /\ pages[p][q].y = OriginY(layout, k)
    /\ LoopDone =>
          /\ Concat(batches) = image_files
          /\ (entry \in {"core", "cli"} /\ pages # <<>>) => output = pages
          /\ entry = "gui" => (signal = "finished" \/ pc = "idle")

C8_Witness ==
    /\ LoopDone
    /\ entry = "core"
    /\ output = pages
    /\ Len(pages) = 2
    /\ \E k \in 1..(Len(batches[1]) - 1) :
          /\ dir_files[batches[1][k]] = "unreadable"
          /\ dir_files[batches[1][k + 1]] = "ok"

----------------------------------------------------------------------------
(* Properties of the error paths of a run. *)

InputErrors == {"InputDirMissing", "NoValidImages"}

\* get_image_files has run and found a missing directory or no valid image
InputFailed ==
    /\ entry # "call"
    /\ pc \notin {"idle", "scan"}
    /\ image_files = <<>>

\* C9: with a missing input directory or zero valid images the run ends in a
\* reported input error before any layout computation, renders no page and
\* writes no output file, and does not end as a success with empty output;
\* for pytcgprint, the CLI main and the GUI generation thread.
C9_InputErrorAborts ==
    InputFailed =>
        /\ reported # <<>> /\ reported[1] \in InputErrors
        /\ layout_calls = 0
        /\ pages = <<>>
        /\ output = NoFile
        /\ signal # "finished"

\* calculate_layout is over, with a result or an error
LayoutOver ==
    /\ layout_calls > 0
    /\ pc \notin {"layout_cols", "layout_rows", "layout_final"}

\* auto columns on a page too narrow for one card and the margins
TooNarrowForOne ==
    /\ settings.cols <= 0
    /\ CardW(settings) > 0
    /\ AvailW(settings) < CardW(settings)

\* the chosen rows, with the gap of the chosen columns, exceed the page height
GridTooTall ==
    /\ cols >= 1 /\ rows >= 1
    /\ (rows * CardH(settings))
         + ((rows - 1) * Gap(PageW(settings), MarginX(settings),
                             CardW(settings), cols))
       > PageH(settings)

ErrorReported ==
    \/ \E k \in 1..Len(reported) : reported[k] \in ValueErrors
    \/ signal = "error"

\* C10: when the layout is infeasible (page too narrow for one column in auto
\* mode, or grid higher than the page) the run reports an error, create_page
\* is never called and no output file is written.
C10_InfeasibleLayoutAborts ==
    (entry # "call" /\ LayoutOver /\ (TooNarrowForOne \/ GridTooTall)) =>
        /\ ErrorReported
        /\ layout_err \in ValueErrors
        /\ batches = <<>>
        /\ pages = <<>>
        /\ output = NoFile

C10_Witness ==
    /\ entry = "core"
    /\ pc = "returned"
    /\ layout_err = "TooTall"
    /\ Len(image_files) >= 2
    /\ GridTooTall

----------------------------------------------------------------------------
(* Properties of the order of rendering and export. *)

\* the images of the input list that belong on page number p (from 1), i.e.
\* list positions (p - 1) * capacity + 1 .. p * capacity
PageShare(p) ==
    SubSeq(image_files,
           ((p - 1) * layout.cards_per_page) + 1,
           Min(p * layout.cards_per_page, Len(image_files)))

\* the pages are handed over: saved by core / cli, emitted by the gui thread
HandedOver == output # NoFile \/ signal = "finished"

\* C11: the export happens only after the page of every batch is composited,
\* batch i+1 is not started before the page of batch i is complete, and the
\* pages handed to the exporter are in batch order, page p holding exactly
\* batch p.
C11_SequentialInBatchOrder ==
    /\ entry # "call" => (Len(batches) = i /\ Len(pages) = i)
    /\ \A p \in 1..Len(pages) :
          [q \in 1..Len(pages[p]) |-> pages[p][q].img]
             = RenderableOf(PageShare(p))
    /\ HandedOver =>
          /\ Len(pages) * layout.cards_per_page >= Len(image_files)
          /\ output # NoFile => output = pages

C11_Witness ==
    /\ entry = "cli"
    /\ pc = "exit0"
    /\ output = pages
    /\ Len(pages) = 3
    /\ \A p \in 1..3 : Len(pages[p]) = 1

\* a run with at least one valid image and a feasible layout has ended: the
\* core run returned, the CLI main exited, or the main window handled the
\* signal of its GenerateThread
RunEndedWithLayout ==
    /\ Returned
    /\ image_files # <<>>
    /\ \/ entry = "core" /\ pc = "returned"
       \/ entry = "cli" /\ pc = "exit0"
       \/ entry = "gui" /\ pc = "idle" /\ emitted = 1 /\ signal = "none"

\* C12: every run with at least one valid image and a feasible layout writes
\* one output artifact with one page per batch, ceil(total / capacity) pages;
\* for pytcgprint, the CLI main, and GenerateThread.run followed by
\* on_generation_finished.  Stated at the end of the run.
C12_OutputWritten ==
    RunEndedWithLayout =>
        /\ output # NoFile
        /\ Len(output) * layout.cards_per_page >= Len(image_files)
        /\ (Len(output) - 1) * layout.cards_per_page < Len(image_files)

----------------------------------------------------------------------------
(* Properties of the ways calculate_layout ends. *)

\* C13: for every input meeting the data model constraints, scaled card
\* sizes of 0 pixels included, calculate_layout returns a geometry or fails
\* with the layout error (ValueError); it never fails in another way such as
\* a division by zero.
C13_OnlyLayoutErrors ==
    layout_err \in ({"none"} \cup ValueErrors)

----------------------------------------------------------------------------
(* Properties of the row count. *)

\* the auto-row search has ended and selected rows
SearchEnded == settings.rows <= 0 /\ rows >= 1

\* page_h - 2 * px(0.25, dpi)
BufferedHeight == PageH(settings) - (2 * Trunc(settings.dpi, 4))

\* n * card_h + (n - 1) * gap, with the gap of the chosen columns
NeededHeight(n) ==
    LET g == IF cols > 1
             THEN (AvailW(settings) - (cols * CardW(settings))) \div (cols - 1)
             ELSE 0
    IN  (n * CardH(settings)) + ((n - 1) * g)

\* C14 as claimed: the selected auto row count R is the last count that fits
\* the buffered height: R rows fit page_h - 2 * px(0.25, dpi) and R + 1 rows
\* do not.
C14_AutoRowsLastFit ==
    SearchEnded =>
        /\ NeededHeight(rows) <= BufferedHeight
        /\ NeededHeight(rows + 1) > BufferedHeight

\* C14 as amended: R + 1 rows do not fit the buffered height, and R rows fit
\* it whenever R >= 2; R = 1 is selected without being tested against the
\* buffered height (only the final check against the page height applies).
C14_AutoRowsLastTested ==
    SearchEnded =>
        /\ NeededHeight(rows + 1) > BufferedHeight
        /\ rows >= 2 => NeededHeight(rows) <= BufferedHeight

C14_Witness ==
    /\ SearchEnded
    /\ Returned
    /\ rows >= 2
    /\ layout.gap > 0
    /\ CardH(settings) > 0

\* ---------------------------------------------------------------------------
\* C15: an explicit row count R >= 1 bypasses the 0.25in buffer.  Once the
\* column step has succeeded, calculate_layout returns a geometry with
\* rows = R exactly when R*card_h + (R-1)*gap <= page_h and fails with the
\* too-tall error otherwise; a grid of exactly the page height is accepted.
ExplicitRowsDecided ==
    /\ settings.rows >= 1
    /\ LayoutOver
    /\ cols >= 1
    /\ layout_err \notin {"TooNarrow", "ZeroDivisionError"}

C15_ExplicitRowsNoBuffer ==
    ExplicitRowsDecided =>
        /\ (NeededHeight(settings.rows) <= PageH(settings)) <=>
               (Returned /\ layout.rows = settings.rows)
        /\ (NeededHeight(settings.rows) > PageH(settings)) <=>
               (layout_err = "TooTall" /\ ~Returned)

\* two requested rows of visible cards that fill the page height exactly,
\* which is more than the buffered height the auto search would allow
C15_Witness ==
    /\ ExplicitRowsDecided
    /\ settings.rows = 2
    /\ Returned
    /\ ch_of(layout) > 0
    /\ GridHeightOf(layout) = page_h_of(layout)
    /\ NeededHeight(settings.rows) > BufferedHeight

\* ---------------------------------------------------------------------------
\* C16: in the GUI at most one GenerateThread runs at any time.  The Generate
\* button is disabled from the click that starts a run until the handler of
\* that run's finished or error signal has run, a run whose thread has ended
\* has emitted exactly one of the two signals, and the handler re-enables
\* the button.
ThreadRunning == pc \notin {"idle", "thread_done"}

C16_OneGenerateThread ==
    entry = "gui" =>
        /\ threads \in {0, 1}
        /\ emitted \in {0, 1}
        /\ (threads = 1) <=> ThreadRunning
        /\ ThreadRunning =>
               (~btn_enabled /\ emitted = 0 /\ signal = "none")
        /\ pc = "thread_done" =>
               (~btn_enabled /\ emitted = 1 /\ signal \in {"finished", "error"})
        /\ pc = "idle" => (btn_enabled /\ signal = "none")

\* a run that rendered pages has emitted finished, its handler has run and
\* the button is enabled again with no thread left
C16_Witness ==
    /\ entry = "gui"
    /\ pc = "idle"
    /\ emitted = 1
    /\ threads = 0
    /\ btn_enabled
    /\ pages # <<>>
    /\ \E k \in 1..Len(reported) : reported[k] = "OutputFileNotFound"

\* ---------------------------------------------------------------------------
\* C17: the auto-row search terminates: from every state of the loop some
\* later trial count has a needed height above the buffered page height.
\* The needed height of n + 1 rows is card_h + n * (card_h + gap), linear in
\* n, so if it ever exceeds the limit it does so for some n no more than
\* page_h + 1 beyond the current trial count.
C17_RowSearchTerminates ==
    pc = "layout_rows" =>
        \E n \in test_rows..(test_rows + PageH(settings) + 1) :
            NeededHeight(n + 1) > BufferedHeight

=============================================================================
